---- MODULE Spec2Model ----
(***************************************************************************)
(* Model of the e-commerce backend: the in-memory store (app/database.py), *)
(* the product and order services (app/services), the HTTP handlers        *)
(* (app/routers) with the request schema (app/models.py), and the          *)
(* file-backed variant (run.py).                                           *)
(*                                                                         *)
(* Python strings are sequences of one-character strings, so that          *)
(* formatting, lower-casing, substring search and the ObjectId format     *)
(* check are computed rather than assumed.  A dict is the sequence of its  *)
(* values in insertion order; the key of a value is its "_id" field.       *)
(***************************************************************************)
EXTENDS Integers, Sequences, FiniteSets, TLC

\* Bounds of the model: how many records each collection may hold.
MaxProducts == 2
MaxOrders == 2

---------------------------------------------------------------------------
\* Python values

\* None where a str is expected (no Python string has a multi-character element)
NoneStr == <<"None">>
\* None where an int is expected (the model draws limits from the naturals)
NoneInt == -1
\* None where a dict / model object is expected
NoneDoc == [None |-> TRUE]

\* bool(s) of an Optional[str]
TruthyStr(s) == s # NoneStr /\ s # <<>>
\* bool(n) of an Optional[int]
TruthyInt(n) == n # NoneInt /\ n # 0

Min(a, b) == IF a <= b THEN a ELSE b

\* seq[start:end] for start >= 0 and end >= 0
PySlice(seq, start, end) == SubSeq(seq, start + 1, Min(end, Len(seq)))

LowerChar(c) ==
    CASE c = "A" -> "a"
      [] c = "B" -> "b"
      [] c = "C" -> "c"
      [] c = "L" -> "l"
      [] OTHER -> c

\* str.lower()
Lower(s) == [i \in 1..Len(s) |-> LowerChar(s[i])]

\* needle in hay, for str
Contains(needle, hay) ==
    \E i \in 0..(Len(hay) - Len(needle)) :
        SubSeq(hay, i + 1, i + Len(needle)) = needle

DigitChars == <<"0", "1", "2", "3", "4", "5", "6", "7", "8", "9">>

RECURSIVE Decimal(_)
Decimal(n) ==
    IF n < 10 THEN <<DigitChars[n + 1]>>
    ELSE Decimal(n \div 10) \o <<DigitChars[(n % 10) + 1]>>

\* f"{n:06d}": decimal digits, zero-padded on the left to at least 6 characters
Format06d(n) ==
    LET d == Decimal(n)
    IN  [i \in 1..(6 - Len(d)) |-> "0"] \o d

HexChars == {"0", "1", "2", "3", "4", "5", "6", "7", "8", "9",
             "a", "b", "c", "d", "e", "f", "A", "B", "C", "D", "E", "F"}

\* bson ObjectId.is_valid for a str: 24 hexadecimal characters
ObjectIdIsValid(s) == Len(s) = 24 /\ \A i \in 1..Len(s) : s[i] \in HexChars

---------------------------------------------------------------------------
\* dict, as the sequence of its values in insertion order, keyed by _id

DictHas(d, k) == \E i \in 1..Len(d) : d[i]._id = k

\* d.get(k)
DictGet(d, k) ==
    IF DictHas(d, k) THEN d[CHOOSE i \in 1..Len(d) : d[i]._id = k] ELSE NoneDoc

\* d[k] = v: a present key keeps its position, a new key goes last
DictSet(d, k, v) ==
    IF DictHas(d, k)
    THEN [i \in 1..Len(d) |-> IF d[i]._id = k THEN v ELSE d[i]]
    ELSE Append(d, v)

---------------------------------------------------------------------------
VARIABLES
    impl,               \* which program runs: "app" (app/) or "run" (run.py)
    products,           \* InMemoryDatabase.products
    orders,             \* InMemoryDatabase.orders
    _product_counter,   \* InMemoryDatabase._product_counter
    _order_counter,     \* InMemoryDatabase._order_counter
    products_file,      \* the list in api_data/products.json
    orders_file,        \* the list in api_data/orders.json
    resp,               \* the last call, its arguments and what it returned or raised
    createdProducts,    \* the records the create-product calls have returned, in order
    createdOrders,      \* the records the create-order calls have returned, in order
    at,                 \* per concurrent caller: the statement its create call is at
    local               \* per concurrent caller: the local variables of its create call

vars == <<impl, products, orders, _product_counter, _order_counter,
          products_file, orders_file, resp, createdProducts, createdOrders, at, local>>

\* the callers whose create calls may interleave
Writers == {"w1", "w2"}
\* the locals of a caller that is in no call
NoLocal == [coll |-> "none"]

store == <<products, orders, _product_counter, _order_counter>>
files == <<products_file, orders_file>>
created == <<createdProducts, createdOrders>>

\* InMemoryDatabase.__init__ (app), ECommerceAPI.setup_data_directory on a new directory (run)
Init ==
    /\ impl \in {"app", "run"}
    /\ products = <<>>
    /\ orders = <<>>
    /\ _product_counter = 1
    /\ _order_counter = 1
    /\ products_file = <<>>
    /\ orders_file = <<>>
    /\ resp = [op |-> "init"]
    /\ createdProducts = <<>>
    /\ createdOrders = <<>>
    /\ at = [w \in Writers |-> "idle"]
    /\ local = [w \in Writers |-> NoLocal]

InitApp == Init /\ impl = "app"

---------------------------------------------------------------------------
\* app/database.py

\* the literals "prod_" and "order_" of generate_id
ProdPrefix == <<"p", "r", "o", "d", "_">>
OrderPrefix == <<"o", "r", "d", "e", "r", "_">>

\* generate_id with one counter serving both collections
generate_id_one_counter(collection, pc, oc) ==
    IF collection = "products"
    THEN [id_val |-> ProdPrefix \o Format06d(pc), pc |-> pc + 1, oc |-> oc]
    ELSE [id_val |-> OrderPrefix \o Format06d(pc), pc |-> pc + 1, oc |-> oc]

\* generate_id that leaves the product counter as it was
generate_id_no_increment(collection, pc, oc) ==
    IF collection = "products"
    THEN [id_val |-> ProdPrefix \o Format06d(pc), pc |-> pc, oc |-> oc]
    ELSE [id_val |-> OrderPrefix \o Format06d(oc), pc |-> pc, oc |-> oc + 1]

\* generate_id: the id, and the two counters after the call
generate_id(collection, pc, oc) ==
    IF collection = "products"
    THEN [id_val |-> ProdPrefix \o Format06d(pc), pc |-> pc + 1, oc |-> oc]
    ELSE [id_val |-> OrderPrefix \o Format06d(oc), pc |-> pc, oc |-> oc + 1]

\* insert_product: the stored record, the collection and the counters after the call
insert_product(prods, pc, oc, product_data) ==
    LET g == generate_id("products", pc, oc)
        doc == [_id |-> g.id_val, name |-> product_data.name,
                description |-> product_data.description,
                price |-> product_data.price, size |-> product_data.size]
    IN  [doc |-> doc, products |-> DictSet(prods, g.id_val, doc), pc |-> g.pc, oc |-> g.oc]

\* find_products that cuts the page out of the collection before it filters
find_products_page_first(prods, filters, limit, offset) ==
    LET start == offset
        end == IF TruthyInt(limit) THEN start + limit ELSE Len(prods)
        page == PySlice(prods, start, end)
        given == filters # <<>>
        byName == IF given /\ "name" \in DOMAIN filters
                  THEN SelectSeq(page, LAMBDA p : Contains(Lower(filters.name), Lower(p.name)))
                  ELSE page
    IN  IF given /\ "size" \in DOMAIN filters
        THEN SelectSeq(byName, LAMBDA p : p.size = filters.size)
        ELSE byName

\* find_products; filters is a record with the fields "name", "size" that are given
find_products(prods, filters, limit, offset) ==
    LET all == prods
        given == filters # <<>>
        byName == IF given /\ "name" \in DOMAIN filters
                  THEN SelectSeq(all, LAMBDA p : Contains(Lower(filters.name), Lower(p.name)))
                  ELSE all
        bySize == IF given /\ "size" \in DOMAIN filters
                  THEN SelectSeq(byName, LAMBDA p : p.size = filters.size)
                  ELSE byName
        start == offset
        end == IF TruthyInt(limit) THEN start + limit ELSE Len(bySize)
    IN  PySlice(bySize, start, end)

\* find_product_by_id
find_product_by_id(prods, product_id) == DictGet(prods, product_id)

\* insert_order: created_at is the clock reading t
insert_order(ords, pc, oc, order_data, t) ==
    LET g == generate_id("orders", pc, oc)
        doc == [_id |-> g.id_val, user_id |-> order_data.user_id,
                products |-> order_data.products, total |-> order_data.total,
                created_at |-> t]
    IN  [doc |-> doc, orders |-> DictSet(ords, g.id_val, doc), pc |-> g.pc, oc |-> g.oc]

\* find_orders_by_user that compares user ids by their first character
find_orders_by_user_prefix(ords, user_id, limit, offset) ==
    LET user_orders == SelectSeq(ords, LAMBDA o : o.user_id[1] = user_id[1])
        start == offset
        end == IF TruthyInt(limit) THEN start + limit ELSE Len(user_orders)
    IN  PySlice(user_orders, start, end)

\* find_orders_by_user
find_orders_by_user(ords, user_id, limit, offset) ==
    LET user_orders == SelectSeq(ords, LAMBDA o : o.user_id = user_id)
        start == offset
        end == IF TruthyInt(limit) THEN start + limit ELSE Len(user_orders)
    IN  PySlice(user_orders, start, end)

\* a direct call of InMemoryDatabase.find_products
InMemoryDatabase_find_products(filters, limit, offset) ==
    /\ impl = "app"
    /\ resp' = [op |-> "find_products",
                arg |-> [filters |-> filters, limit |-> limit, offset |-> offset],
                outcome |-> "ok",
                body |-> find_products(products, filters, limit, offset)]
    /\ UNCHANGED <<impl, at, local, store, files, created>>

---------------------------------------------------------------------------
\* app/services/product_service.py
\* The services wrap the store's dicts in the model classes Product and Order, which they
\* import from app.models; app/models.py defines neither, so what a service returns is
\* taken to be the stored record, field by field.

\* ProductService.create_product
ProductService_create_product(data) ==
    /\ impl = "app"
    /\ Len(products) < MaxProducts
    /\ LET r == insert_product(products, _product_counter, _order_counter, data)
       IN  /\ products' = r.products
           /\ _product_counter' = r.pc
           /\ _order_counter' = r.oc
           /\ resp' = [op |-> "create_product", arg |-> data,
                       outcome |-> "ok", body |-> r.doc]
           /\ createdProducts' = Append(createdProducts, r.doc)
    /\ UNCHANGED <<impl, at, local, orders, files, createdOrders>>

\* the filters dict ProductService.get_products builds
get_products_filters(name, size) ==
    CASE TruthyStr(name) /\ TruthyStr(size) -> [name |-> name, size |-> size]
      [] TruthyStr(name) /\ ~TruthyStr(size) -> [name |-> name]
      [] ~TruthyStr(name) /\ TruthyStr(size) -> [size |-> size]
      [] OTHER -> <<>>

\* ProductService.get_products
ProductService_get_products(name, size, limit, offset) ==
    /\ impl = "app"
    /\ resp' = [op |-> "get_products",
                arg |-> [name |-> name, size |-> size, limit |-> limit, offset |-> offset],
                outcome |-> "ok",
                body |-> find_products(products, get_products_filters(name, size),
                                       limit, offset)]
    /\ UNCHANGED <<impl, at, local, store, files, created>>

\* ProductService.get_product_by_id: the product, or None
get_product_by_id(prods, product_id) ==
    LET product_data == find_product_by_id(prods, product_id)
    IN  IF product_data # NoneDoc THEN product_data ELSE NoneDoc

ProductService_get_product_by_id(product_id) ==
    /\ impl = "app"
    /\ resp' = [op |-> "get_product_by_id", arg |-> product_id, outcome |-> "ok",
                body |-> get_product_by_id(products, product_id)]
    /\ UNCHANGED <<impl, at, local, store, files, created>>

\* validate_product_ids that looks at the first id only
validate_first_product_id(prods, product_ids) ==
    product_ids = <<>> \/ DictGet(prods, product_ids[1]) # NoneDoc

\* ProductService.validate_product_ids
validate_product_ids(prods, product_ids) ==
    \A i \in 1..Len(product_ids) : find_product_by_id(prods, product_ids[i]) # NoneDoc

---------------------------------------------------------------------------
\* app/services/order_service.py

\* create_order without the check of the product ids
create_order_unchecked(prods, ords, pc, oc, order_data, t) ==
    LET r == insert_order(ords, pc, oc, order_data, t)
    IN  [outcome |-> "ok", body |-> r.doc, orders |-> r.orders, pc |-> r.pc, oc |-> r.oc]

\* create_order that draws the order id before it checks the product ids
create_order_id_first(prods, ords, pc, oc, order_data, t) ==
    LET g == generate_id("orders", pc, oc)
        r == insert_order(ords, pc, oc, order_data, t)
    IN  IF ~validate_product_ids(prods, order_data.products)
        THEN [outcome |-> "ValueError", body |-> NoneDoc, orders |-> ords,
              pc |-> g.pc, oc |-> g.oc]
        ELSE [outcome |-> "ok", body |-> r.doc, orders |-> r.orders, pc |-> r.pc, oc |-> r.oc]

\* OrderService.create_order: what it returns or raises, and the store after the call
create_order(prods, ords, pc, oc, order_data, t) ==
    IF ~validate_product_ids(prods, order_data.products)
    THEN [outcome |-> "ValueError", body |-> NoneDoc, orders |-> ords, pc |-> pc, oc |-> oc]
    ELSE LET r == insert_order(ords, pc, oc, order_data, t)
         IN  [outcome |-> "ok", body |-> r.doc, orders |-> r.orders, pc |-> r.pc, oc |-> r.oc]

OrderService_create_order(order_data, t) ==
    /\ impl = "app"
    /\ LET r == create_order(products, orders, _product_counter, _order_counter,
                             order_data, t)
       IN  /\ r.outcome = "ok" => Len(orders) < MaxOrders
           /\ orders' = r.orders
           /\ _product_counter' = r.pc
           /\ _order_counter' = r.oc
           /\ resp' = [op |-> "create_order", arg |-> order_data,
                       outcome |-> r.outcome, body |-> r.body]
           /\ createdOrders' = IF r.outcome = "ok" THEN Append(createdOrders, r.body)
                               ELSE createdOrders
    /\ UNCHANGED <<impl, at, local, products, files, createdProducts>>

\* OrderService.get_orders_by_user
OrderService_get_orders_by_user(user_id, limit, offset) ==
    /\ impl = "app"
    /\ resp' = [op |-> "get_orders_by_user",
                arg |-> [user_id |-> user_id, limit |-> limit, offset |-> offset],
                outcome |-> "ok",
                body |-> find_orders_by_user(orders, user_id, limit, offset)]
    /\ UNCHANGED <<impl, at, local, store, files, created>>

---------------------------------------------------------------------------
\* app/models.py

\* OrderCreate.validate_products: TRUE when the validator returns, FALSE when it raises
validate_products(v) ==
    /\ v # <<>>
    /\ \A i \in 1..Len(v) : ObjectIdIsValid(v[i])

\* OrderCreate.validate_total
validate_total(v) == ~(v <= 0)

\* OrderCreate: the field constraints and the validators accept the body (a body they
\* refuse never reaches the handler; the framework answers 422)
OrderCreate(body) ==
    /\ Len(body.user_id) >= 1 /\ Len(body.user_id) <= 100
    /\ Len(body.products) >= 1
    /\ validate_products(body.products)
    /\ body.total > 0
    /\ validate_total(body.total)

---------------------------------------------------------------------------
\* app/routers

\* The services' methods are plain functions: what they return (a model object, a list,
\* None) is not awaitable, and "await" of it raises TypeError.
Awaitable(value) == FALSE

\* POST /orders/ (routers/orders.py create_order): the response status and the store after
orders_create_order(order_body, t) ==
    /\ impl = "app"
    /\ IF ~OrderCreate(order_body)
       THEN \* the request schema rejects the body before the handler runs
            /\ resp' = [op |-> "POST /orders", arg |-> order_body, status |-> 422,
                        body |-> NoneDoc]
            /\ UNCHANGED <<store, createdOrders>>
       ELSE LET r == create_order(products, orders, _product_counter, _order_counter,
                                  order_body, t)
            IN  /\ r.outcome = "ok" => Len(orders) < MaxOrders
                /\ orders' = r.orders
                /\ _product_counter' = r.pc
                /\ _order_counter' = r.oc
                /\ UNCHANGED products
                /\ IF r.outcome = "ValueError"
                   THEN /\ resp' = [op |-> "POST /orders", arg |-> order_body,
                                    status |-> 400, body |-> NoneDoc]
                        /\ UNCHANGED createdOrders
                   ELSE IF Awaitable(r.body)
                   THEN /\ resp' = [op |-> "POST /orders", arg |-> order_body,
                                    status |-> 201, body |-> r.body]
                        /\ createdOrders' = Append(createdOrders, r.body)
                   ELSE \* TypeError, caught by "except Exception"
                        /\ resp' = [op |-> "POST /orders", arg |-> order_body,
                                    status |-> 500, body |-> NoneDoc]
                        /\ UNCHANGED createdOrders
    /\ UNCHANGED <<impl, at, local, files, createdProducts>>

\* GET /products/{product_id} (routers/products.py get_product)
products_get_product(product_id) ==
    /\ impl = "app"
    /\ LET product == get_product_by_id(products, product_id)
       IN  IF ~Awaitable(product)
           THEN \* TypeError, not caught by the handler
                resp' = [op |-> "GET /products/{id}", arg |-> product_id, status |-> 500,
                         body |-> NoneDoc]
           ELSE IF product = NoneDoc
           THEN resp' = [op |-> "GET /products/{id}", arg |-> product_id, status |-> 404,
                         body |-> NoneDoc]
           ELSE resp' = [op |-> "GET /products/{id}", arg |-> product_id, status |-> 200,
                         body |-> product]
    /\ UNCHANGED <<impl, at, local, store, files, created>>

\* GET /orders/order/{order_id} (routers/orders.py get_order): OrderService has the
\* methods create_order and get_orders_by_user only, so the handler's call of
\* order_service.get_order_by_id raises AttributeError, which it does not catch
orders_get_order(order_id) ==
    /\ impl = "app"
    /\ resp' = [op |-> "GET /orders/order/{id}", arg |-> order_id, status |-> 500,
                body |-> NoneDoc]
    /\ UNCHANGED <<impl, at, local, store, files, created>>

---------------------------------------------------------------------------
\* run.py

\* create_product that appends the new record to the list that is in the file now, and
\* not to the list it loaded
api_create_product_reload(prods, product_data, t) ==
    LET product_id == ProdPrefix \o Format06d(Len(prods) + 1)
        product == [_id |-> product_id, name |-> product_data.name,
                    description |-> product_data.description,
                    price |-> product_data.price, size |-> product_data.size,
                    created_at |-> t]
    IN  [product |-> product, saved |-> Append(products_file, product)]

\* ECommerceAPI.create_product after load_products returned prods: the record it returns
\* and the list it hands to save_products; created_at is the clock reading t
api_create_product(prods, product_data, t) ==
    LET product_id == ProdPrefix \o Format06d(Len(prods) + 1)
        product == [_id |-> product_id, name |-> product_data.name,
                    description |-> product_data.description,
                    price |-> product_data.price, size |-> product_data.size,
                    created_at |-> t]
    IN  [product |-> product, saved |-> Append(prods, product)]

\* ECommerceAPI.create_product
ECommerceAPI_create_product(product_data, t) ==
    /\ impl = "run"
    /\ Len(products_file) < MaxProducts
    /\ LET r == api_create_product(products_file, product_data, t)
       IN  /\ products_file' = r.saved
           /\ resp' = [op |-> "api.create_product", arg |-> product_data,
                       outcome |-> "ok", body |-> r.product]
           /\ createdProducts' = Append(createdProducts, r.product)
    /\ UNCHANGED <<impl, at, local, store, orders_file, createdOrders>>

\* get_products that compares the name filter and the names as they are written
api_get_products_case_sensitive(prods, name, size, limit, offset) ==
    LET byName == IF TruthyStr(name)
                  THEN SelectSeq(prods, LAMBDA p : Contains(name, p.name))
                  ELSE prods
        bySize == IF TruthyStr(size)
                  THEN SelectSeq(byName, LAMBDA p : p.size = size)
                  ELSE byName
    IN  [products |-> PySlice(bySize, offset, offset + limit), total |-> Len(bySize),
         limit |-> limit, offset |-> offset]

\* ECommerceAPI.get_products: the "products" entry of the result
api_get_products(prods, name, size, limit, offset) ==
    LET byName == IF TruthyStr(name)
                  THEN SelectSeq(prods, LAMBDA p : Contains(Lower(name), Lower(p.name)))
                  ELSE prods
        bySize == IF TruthyStr(size)
                  THEN SelectSeq(byName, LAMBDA p : p.size = size)
                  ELSE byName
    IN  [products |-> PySlice(bySize, offset, offset + limit), total |-> Len(bySize),
         limit |-> limit, offset |-> offset]

ECommerceAPI_get_products(name, size, limit, offset) ==
    /\ impl = "run"
    /\ resp' = [op |-> "api.get_products",
                arg |-> [name |-> name, size |-> size, limit |-> limit, offset |-> offset],
                outcome |-> "ok",
                body |-> api_get_products(products_file, name, size, limit, offset)]
    /\ UNCHANGED <<impl, at, local, store, files, created>>

\* ECommerceAPI.create_order, the loop over order_data["products"]: TRUE when it raises
api_product_missing(prods, order_data) ==
    LET product_ids == [i \in 1..Len(prods) |-> prods[i]._id]
    IN  \E i \in 1..Len(order_data.products) :
            ~(\E j \in 1..Len(product_ids) : product_ids[j] = order_data.products[i])

\* ECommerceAPI.create_order after the check: the record it returns and the list it hands
\* to save_orders
api_create_order(ords, order_data, t) ==
    LET order == [_id |-> OrderPrefix \o Format06d(Len(ords) + 1),
                  user_id |-> order_data.user_id, products |-> order_data.products,
                  total |-> order_data.total, created_at |-> t]
    IN  [order |-> order, saved |-> Append(ords, order)]

\* ECommerceAPI.create_order
ECommerceAPI_create_order(order_data, t) ==
    /\ impl = "run"
    /\ LET ords == orders_file
           r == api_create_order(ords, order_data, t)
       IN  IF api_product_missing(products_file, order_data)
           THEN /\ resp' = [op |-> "api.create_order", arg |-> order_data,
                            outcome |-> "ValueError", body |-> NoneDoc]
                /\ UNCHANGED <<orders_file, createdOrders>>
           ELSE /\ Len(ords) < MaxOrders
                /\ orders_file' = r.saved
                /\ resp' = [op |-> "api.create_order", arg |-> order_data,
                            outcome |-> "ok", body |-> r.order]
                /\ createdOrders' = Append(createdOrders, r.order)
    /\ UNCHANGED <<impl, at, local, store, products_file, createdProducts>>

\* ECommerceAPI.get_user_orders
api_get_user_orders(ords, user_id, limit, offset) ==
    LET user_orders == SelectSeq(ords, LAMBDA o : o.user_id = user_id)
    IN  [orders |-> PySlice(user_orders, offset, offset + limit),
         total |-> Len(user_orders), limit |-> limit, offset |-> offset]

ECommerceAPI_get_user_orders(user_id, limit, offset) ==
    /\ impl = "run"
    /\ resp' = [op |-> "api.get_user_orders",
                arg |-> [user_id |-> user_id, limit |-> limit, offset |-> offset],
                outcome |-> "ok",
                body |-> api_get_user_orders(orders_file, user_id, limit, offset)]
    /\ UNCHANGED <<impl, at, local, store, files, created>>

---------------------------------------------------------------------------
\* Two callers whose create calls interleave statement by statement.  Between its
\* statements a call keeps what it has read in its locals; the other caller may run
\* any of its own statements in between.

\* the number of create calls on a collection that have begun and not yet returned
InFlight(coll) == Cardinality({ w \in Writers : local[w].coll = coll })

SetAt(w, label) == [at EXCEPT ![w] = label]
SetLocal(w, value) == [local EXCEPT ![w] = value]

\* ProductService.create_product -> insert_product -> generate_id, the statement
\* id_val = f"prod_{self._product_counter:06d}"
race_format_product_id(w, product_data) ==
    /\ impl = "app"
    /\ at[w] = "idle"
    /\ Len(createdProducts) + InFlight("products") < MaxProducts
    /\ at' = SetAt(w, "counter_load")
    /\ local' = SetLocal(w, [coll |-> "products", data |-> product_data,
                             id_val |-> generate_id("products", _product_counter,
                                                    _order_counter).id_val])
    /\ UNCHANGED <<impl, store, files, created, resp>>

\* OrderService.create_order, the check of the product ids before insert_order
race_validate_product_ids(w, order_data) ==
    /\ impl = "app"
    /\ at[w] = "idle"
    /\ IF validate_product_ids(products, order_data.products)
       THEN /\ Len(createdOrders) + InFlight("orders") < MaxOrders
            /\ at' = SetAt(w, "format")
            /\ local' = SetLocal(w, [coll |-> "orders", data |-> order_data])
            /\ UNCHANGED resp
       ELSE /\ resp' = [op |-> "race.create_order", who |-> w, arg |-> order_data,
                        outcome |-> "ValueError", body |-> NoneDoc]
            /\ UNCHANGED <<at, local>>
    /\ UNCHANGED <<impl, store, files, created>>

\* insert_order -> generate_id, the statement id_val = f"order_{self._order_counter:06d}"
race_format_order_id(w) ==
    /\ impl = "app"
    /\ at[w] = "format"
    /\ at' = SetAt(w, "counter_load")
    /\ local' = SetLocal(w, [coll |-> "orders", data |-> local[w].data,
                             id_val |-> generate_id("orders", _product_counter,
                                                    _order_counter).id_val])
    /\ UNCHANGED <<impl, store, files, created, resp>>

\* generate_id, "self._..._counter += 1": the read of the counter
race_counter_load(w) ==
    /\ impl = "app"
    /\ at[w] = "counter_load"
    /\ at' = SetAt(w, "counter_store")
    /\ local' = SetLocal(w, [coll |-> local[w].coll, data |-> local[w].data,
                             id_val |-> local[w].id_val,
                             counter |-> IF local[w].coll = "products"
                                         THEN _product_counter ELSE _order_counter])
    /\ UNCHANGED <<impl, store, files, created, resp>>

\* generate_id, "self._..._counter += 1": the write of the sum
race_counter_store(w) ==
    /\ impl = "app"
    /\ at[w] = "counter_store"
    /\ IF local[w].coll = "products"
       THEN _product_counter' = local[w].counter + 1 /\ UNCHANGED _order_counter
       ELSE _order_counter' = local[w].counter + 1 /\ UNCHANGED _product_counter
    /\ at' = SetAt(w, "insert")
    /\ UNCHANGED <<impl, products, orders, files, created, resp, local>>

\* insert_product after generate_id returned: the write into the dict, and the return
race_insert_product(w) ==
    /\ impl = "app"
    /\ at[w] = "insert"
    /\ local[w].coll = "products"
    /\ LET d == local[w].data
           doc == [_id |-> local[w].id_val, name |-> d.name, description |-> d.description,
                   price |-> d.price, size |-> d.size]
       IN  /\ products' = DictSet(products, local[w].id_val, doc)
           /\ createdProducts' = Append(createdProducts, doc)
           /\ resp' = [op |-> "race.create_product", who |-> w, arg |-> d,
                       outcome |-> "ok", body |-> doc]
    /\ at' = SetAt(w, "idle")
    /\ local' = SetLocal(w, NoLocal)
    /\ UNCHANGED <<impl, orders, _product_counter, _order_counter, files, createdOrders>>

\* insert_order after generate_id returned: created_at, the write into the dict, the return
race_insert_order(w, t) ==
    /\ impl = "app"
    /\ at[w] = "insert"
    /\ local[w].coll = "orders"
    /\ LET d == local[w].data
           doc == [_id |-> local[w].id_val, user_id |-> d.user_id, products |-> d.products,
                   total |-> d.total, created_at |-> t]
       IN  /\ orders' = DictSet(orders, local[w].id_val, doc)
           /\ createdOrders' = Append(createdOrders, doc)
           /\ resp' = [op |-> "race.create_order", who |-> w, arg |-> d,
                       outcome |-> "ok", body |-> doc]
    /\ at' = SetAt(w, "idle")
    /\ local' = SetLocal(w, NoLocal)
    /\ UNCHANGED <<impl, products, _product_counter, _order_counter, files, createdProducts>>

\* ECommerceAPI.create_product, products = self.load_products()
race_load_products(w, product_data) ==
    /\ impl = "run"
    /\ at[w] = "idle"
    /\ Len(createdProducts) + InFlight("products") < MaxProducts
    /\ at' = SetAt(w, "save")
    /\ local' = SetLocal(w, [coll |-> "products", data |-> product_data,
                             loaded |-> products_file])
    /\ UNCHANGED <<impl, store, files, created, resp>>

\* ECommerceAPI.create_product from the id on: the record, save_products, the return
race_save_products(w, t) ==
    /\ impl = "run"
    /\ at[w] = "save"
    /\ local[w].coll = "products"
    /\ LET r == api_create_product(local[w].loaded, local[w].data, t)
       IN  /\ products_file' = r.saved
           /\ createdProducts' = Append(createdProducts, r.product)
           /\ resp' = [op |-> "race.api.create_product", who |-> w, arg |-> local[w].data,
                       outcome |-> "ok", body |-> r.product]
    /\ at' = SetAt(w, "idle")
    /\ local' = SetLocal(w, NoLocal)
    /\ UNCHANGED <<impl, store, orders_file, createdOrders>>

\* ECommerceAPI.create_order, orders = self.load_orders()
race_load_orders(w, order_data) ==
    /\ impl = "run"
    /\ at[w] = "idle"
    /\ Len(createdOrders) + InFlight("orders") < MaxOrders
    /\ at' = SetAt(w, "check")
    /\ local' = SetLocal(w, [coll |-> "orders", data |-> order_data,
                             loaded |-> orders_file])
    /\ UNCHANGED <<impl, store, files, created, resp>>

\* ECommerceAPI.create_order, products = self.load_products() and the check of the ids
race_check_products(w) ==
    /\ impl = "run"
    /\ at[w] = "check"
    /\ IF api_product_missing(products_file, local[w].data)
       THEN /\ resp' = [op |-> "race.api.create_order", who |-> w, arg |-> local[w].data,
                        outcome |-> "ValueError", body |-> NoneDoc]
            /\ at' = SetAt(w, "idle")
            /\ local' = SetLocal(w, NoLocal)
       ELSE /\ at' = SetAt(w, "save")
            /\ UNCHANGED <<resp, local>>
    /\ UNCHANGED <<impl, store, files, created>>

\* ECommerceAPI.create_order from the id on: the record, save_orders, the return
race_save_orders(w, t) ==
    /\ impl = "run"
    /\ at[w] = "save"
    /\ local[w].coll = "orders"
    /\ LET r == api_create_order(local[w].loaded, local[w].data, t)
       IN  /\ orders_file' = r.saved
           /\ createdOrders' = Append(createdOrders, r.order)
           /\ resp' = [op |-> "race.api.create_order", who |-> w, arg |-> local[w].data,
                       outcome |-> "ok", body |-> r.order]
    /\ at' = SetAt(w, "idle")
    /\ local' = SetLocal(w, NoLocal)
    /\ UNCHANGED <<impl, store, products_file, createdProducts>>

---------------------------------------------------------------------------
\* The two programs side by side: each call goes to the services of app/ and to the
\* ECommerceAPI of run.py, each on its own state

\* the _id fields of a list of records
Ids(recs) == [i \in 1..Len(recs) |-> recs[i]._id]

\* InMemoryDatabase.__init__ and ECommerceAPI.setup_data_directory on a new directory
InitPair ==
    /\ impl = "both"
    /\ products = <<>>
    /\ orders = <<>>
    /\ _product_counter = 1
    /\ _order_counter = 1
    /\ products_file = <<>>
    /\ orders_file = <<>>
    /\ resp = [op |-> "init"]
    /\ createdProducts = <<>>
    /\ createdOrders = <<>>
    /\ at = [w \in Writers |-> "idle"]
    /\ local = [w \in Writers |-> NoLocal]

\* ProductService.create_product and ECommerceAPI.create_product on the same data
Pair_create_product(product_data, t) ==
    /\ impl = "both"
    /\ Len(products) < MaxProducts
    /\ Len(products_file) < MaxProducts
    /\ LET a == insert_product(products, _product_counter, _order_counter, product_data)
           r == api_create_product(products_file, product_data, t)
       IN  /\ products' = a.products
           /\ _product_counter' = a.pc
           /\ _order_counter' = a.oc
           /\ products_file' = r.saved
           /\ resp' = [op |-> "pair.create_product", arg |-> product_data,
                       app |-> [outcome |-> "ok", ids |-> <<a.doc._id>>],
                       run |-> [outcome |-> "ok", ids |-> <<r.product._id>>]]
    /\ UNCHANGED <<impl, at, local, orders, orders_file, created>>

\* OrderService.create_order and ECommerceAPI.create_order on the same data
Pair_create_order(order_data, t) ==
    /\ impl = "both"
    /\ LET a == create_order(products, orders, _product_counter, _order_counter,
                             order_data, t)
           missing == api_product_missing(products_file, order_data)
           r == api_create_order(orders_file, order_data, t)
       IN  /\ a.outcome = "ok" => Len(orders) < MaxOrders
           /\ ~missing => Len(orders_file) < MaxOrders
           /\ orders' = a.orders
           /\ _product_counter' = a.pc
           /\ _order_counter' = a.oc
           /\ orders_file' = IF missing THEN orders_file ELSE r.saved
           /\ resp' = [op |-> "pair.create_order", arg |-> order_data,
                       app |-> [outcome |-> a.outcome,
                                ids |-> IF a.outcome = "ok" THEN <<a.body._id>> ELSE <<>>],
                       run |-> IF missing THEN [outcome |-> "ValueError", ids |-> <<>>]
                               ELSE [outcome |-> "ok", ids |-> <<r.order._id>>]]
    /\ UNCHANGED <<impl, at, local, products, products_file, created>>

\* ProductService.get_products and ECommerceAPI.get_products with the same arguments
Pair_get_products(name, size, limit, offset) ==
    /\ impl = "both"
    /\ resp' = [op |-> "pair.get_products",
                arg |-> [name |-> name, size |-> size, limit |-> limit, offset |-> offset],
                app |-> [outcome |-> "ok",
                         ids |-> Ids(find_products(products, get_products_filters(name, size),
                                                   limit, offset))],
                run |-> [outcome |-> "ok",
                         ids |-> Ids(api_get_products(products_file, name, size,
                                                      limit, offset).products)]]
    /\ UNCHANGED <<impl, at, local, store, files, created>>

\* OrderService.get_orders_by_user and ECommerceAPI.get_user_orders with the same arguments
Pair_get_orders(user_id, limit, offset) ==
    /\ impl = "both"
    /\ resp' = [op |-> "pair.get_orders",
                arg |-> [user_id |-> user_id, limit |-> limit, offset |-> offset],
                app |-> [outcome |-> "ok",
                         ids |-> Ids(find_orders_by_user(orders, user_id, limit, offset))],
                run |-> [outcome |-> "ok",
                         ids |-> Ids(api_get_user_orders(orders_file, user_id,
                                                         limit, offset).orders)]]
    /\ UNCHANGED <<impl, at, local, store, files, created>>

---------------------------------------------------------------------------
\* Inputs

P1 == <<"p", "r", "o", "d", "_", "0", "0", "0", "0", "0", "1">>
P2 == <<"p", "r", "o", "d", "_", "0", "0", "0", "0", "0", "2">>
P3 == <<"p", "r", "o", "d", "_", "0", "0", "0", "0", "0", "3">>
O1 == <<"o", "r", "d", "e", "r", "_", "0", "0", "0", "0", "0", "1">>
O3 == <<"o", "r", "d", "e", "r", "_", "0", "0", "0", "0", "0", "3">>
\* a well-formed ObjectId string, as the request schema asks for
HexId == <<"5", "f", "a", "0", "5", "f", "a", "0", "5", "f", "a", "0",
           "5", "f", "a", "0", "5", "f", "a", "0", "5", "f", "a", "0">>

U1 == <<"u", "1">>
U2 == <<"u", "2">>
U3 == <<"u", "3">>
Timestamps == { <<"t", "1">>, <<"t", "2">> }

\* product data as ProductCreate.model_dump() gives it; prices and totals in cents
ProductData(names, sizes) ==
    [name : names, description : { <<"d">> }, price : { 99999 }, size : sizes]

\* order data as OrderCreate.model_dump() gives it
OrderData(users, lists) == [user_id : users, products : lists, total : { 99999 }]

Limits == { NoneInt, 0, 1, 2 }
Offsets == { 0, 1, 2 }

---------------------------------------------------------------------------
\* Creation and lookup by id, in both programs

CoreProducts == ProductData({ <<"A", "b">>, <<"a">> }, { <<"L">> })
CoreOrders == OrderData({ U1 }, { <<P1>>, <<P2, P1>>, <<P1, P3>>, <<HexId>> })

Next ==
    \/ \E d \in CoreProducts : ProductService_create_product(d)
    \/ \E id \in { P1, P2, P3, HexId } : ProductService_get_product_by_id(id)
    \/ \E d \in CoreOrders, t \in Timestamps : OrderService_create_order(d, t)
    \/ \E d \in CoreProducts, t \in Timestamps : ECommerceAPI_create_product(d, t)
    \/ \E d \in CoreOrders, t \in Timestamps : ECommerceAPI_create_order(d, t)

Spec == Init /\ [][Next]_vars

\* The HTTP handlers of the app, over the services
NextHttp ==
    \/ \E d \in ProductData({ <<"a">> }, { <<"L">> }) : ProductService_create_product(d)
    \/ \E d \in OrderData({ U1, U2 }, { <<P1>>, <<P1, P3>> }), t \in { <<"t", "1">> } :
         OrderService_create_order(d, t)
    \/ \E b \in [user_id : { <<>>, U1 },
                 products : { <<>>, <<P1>>, <<HexId>>, <<P1, HexId>>, <<HexId, HexId>> },
                 total : { 0, 99999 }],
          t \in { <<"t", "1">> } :
         orders_create_order(b, t)
    \/ \E u \in { U1, U2 }, l \in { NoneInt, 1 }, o \in { 0, 1 } :
         OrderService_get_orders_by_user(u, l, o)
    \/ \E id \in { P1, P3, HexId } : products_get_product(id)
    \/ \E id \in { O1, O3, HexId } : orders_get_order(id)

SpecHttp == InitApp /\ [][NextHttp]_vars

\* The product queries
NameFilters == { NoneStr, <<>>, <<"a", "B">> }
SizeFilters == { NoneStr, <<>>, <<"L">> }
FilterDicts ==
    { <<>> } \cup { [name |-> n] : n \in NameFilters \ { NoneStr } }
             \cup { [size |-> z] : z \in SizeFilters \ { NoneStr } }
             \cup { [name |-> n, size |-> z] : n \in NameFilters \ { NoneStr },
                                               z \in SizeFilters \ { NoneStr } }

CatalogProducts == ProductData({ <<"A", "b">>, <<"c">> }, { <<"L">>, <<"l">> })
CatalogLimits == { NoneInt, 0, 1 }
CatalogOffsets == { 0, 1 }

NextCatalog ==
    \/ \E d \in CatalogProducts : ProductService_create_product(d)
    \/ \E f \in FilterDicts, l \in CatalogLimits, o \in CatalogOffsets :
         InMemoryDatabase_find_products(f, l, o)
    \/ \E n \in NameFilters, z \in SizeFilters, l \in CatalogLimits, o \in CatalogOffsets :
         ProductService_get_products(n, z, l, o)
    \/ \E d \in CatalogProducts, t \in { <<"t", "1">> } : ECommerceAPI_create_product(d, t)
    \/ \E n \in NameFilters, z \in SizeFilters, l \in CatalogLimits \ { NoneInt },
          o \in CatalogOffsets :
         ECommerceAPI_get_products(n, z, l, o)

SpecCatalog == Init /\ [][NextCatalog]_vars

\* The order queries, and the pagination of both store queries
NextOrders ==
    \/ \E d \in ProductData({ <<"a">> }, { <<"L">> }) : ProductService_create_product(d)
    \/ \E d \in OrderData({ U1, U2 }, { <<P1>>, <<P1, P2>> }), t \in { <<"t", "1">> } :
         OrderService_create_order(d, t)
    \/ \E u \in { U1, U2, U3 }, l \in Limits, o \in Offsets :
         OrderService_get_orders_by_user(u, l, o)
    \/ \E f \in { <<>>, [size |-> <<"L">>] }, l \in Limits, o \in Offsets :
         InMemoryDatabase_find_products(f, l, o)
    \/ \E d \in ProductData({ <<"a">> }, { <<"L">> }), t \in { <<"t", "1">> } :
         ECommerceAPI_create_product(d, t)
    \/ \E d \in OrderData({ U1, U2 }, { <<P1>>, <<P1, P2>> }), t \in { <<"t", "1">> } :
         ECommerceAPI_create_order(d, t)
    \/ \E u \in { U1, U2, U3 }, l \in Limits \ { NoneInt }, o \in Offsets :
         ECommerceAPI_get_user_orders(u, l, o)

SpecOrders == Init /\ [][NextOrders]_vars

\* Two callers creating products and orders at once
RaceProducts == ProductData({ <<"a">>, <<"c">> }, { <<"L">> })
RaceOrders == OrderData({ U1 }, { <<P1>>, <<P3>> })
RaceTimestamps == { <<"t", "1">> }

NextRace ==
    \/ \E w \in Writers, d \in RaceProducts : race_format_product_id(w, d)
    \/ \E w \in Writers, d \in RaceOrders : race_validate_product_ids(w, d)
    \/ \E w \in Writers : race_format_order_id(w)
    \/ \E w \in Writers : race_counter_load(w)
    \/ \E w \in Writers : race_counter_store(w)
    \/ \E w \in Writers : race_insert_product(w)
    \/ \E w \in Writers, t \in RaceTimestamps : race_insert_order(w, t)
    \/ \E w \in Writers, d \in RaceProducts : race_load_products(w, d)
    \/ \E w \in Writers, t \in RaceTimestamps : race_save_products(w, t)
    \/ \E w \in Writers, d \in RaceOrders : race_load_orders(w, d)
    \/ \E w \in Writers : race_check_products(w)
    \/ \E w \in Writers, t \in RaceTimestamps : race_save_orders(w, t)

SpecRace == Init /\ [][NextRace]_vars

\* The two programs given the same calls, one after the other
PairProducts == { [name |-> <<"A", "b">>, description |-> <<"d">>, price |-> 99999, size |-> <<"L">>],
                  [name |-> <<"c">>, description |-> <<"d">>, price |-> 99999, size |-> <<"l">>] }
PairOrders == OrderData({ U1, U2 }, { <<P1>>, <<P2, HexId>> })
PairNames == { NoneStr, <<>>, <<"a", "B">> }
PairSizes == { NoneStr, <<"L">> }
PairLimits == { 1, 2 }
PairOffsets == { 0, 1 }

NextPair ==
    \/ \E d \in PairProducts, t \in { <<"t", "1">> } : Pair_create_product(d, t)
    \/ \E d \in PairOrders, t \in { <<"t", "1">> } : Pair_create_order(d, t)
    \/ \E n \in PairNames, z \in PairSizes, l \in PairLimits, o \in PairOffsets :
         Pair_get_products(n, z, l, o)
    \/ \E u \in { U1, U2 }, l \in PairLimits, o \in PairOffsets : Pair_get_orders(u, l, o)

SpecPair == InitPair /\ [][NextPair]_vars

---------------------------------------------------------------------------
\* Claims

\* prefix followed by the 6-digit, zero-padded decimal of k, for k below 10
ExpectedId(prefix, k) == prefix \o <<"0", "0", "0", "0", "0", DigitChars[k + 1]>>

\* C1: on a fresh store the k-th product created has the id prod_00000k and the k-th order
\* created has the id order_00000k, whatever was created, or failed to be created, in the
\* other collection in between; no id is assigned twice, and each counter is one more
\* than the number of records created in its collection.
C1_SequentialIds ==
    impl = "app" =>
        /\ \A k \in 1..Len(createdProducts) :
             createdProducts[k]._id = ExpectedId(ProdPrefix, k)
        /\ \A k \in 1..Len(createdOrders) :
             createdOrders[k]._id = ExpectedId(OrderPrefix, k)
        /\ \A j, k \in 1..Len(createdProducts) :
             createdProducts[j]._id = createdProducts[k]._id => j = k
        /\ \A j, k \in 1..Len(createdOrders) :
             createdOrders[j]._id = createdOrders[k]._id => j = k
        /\ _product_counter = Len(createdProducts) + 1
        /\ _order_counter = Len(createdOrders) + 1

\* two products and two orders were created, and the last order creation failed
C1_Witness ==
    /\ impl = "app"
    /\ Len(createdProducts) = 2
    /\ Len(createdOrders) = 2
    /\ resp.op = "create_order" /\ resp.outcome = "ValueError"

\* C2: in every state, get_product_by_id of the id of a product that create_product
\* returned gives a record equal to the one returned, field by field; and a
\* get_product_by_id call for such an id did return that record.
C2_GetReturnsCreated ==
    impl = "app" =>
        /\ \A k \in 1..Len(createdProducts) :
             LET P == createdProducts[k]
                 got == get_product_by_id(products, P._id)
             IN  /\ got # NoneDoc
                 /\ got._id = P._id /\ got.name = P.name
                 /\ got.description = P.description
                 /\ got.price = P.price /\ got.size = P.size
        /\ resp.op = "get_product_by_id" =>
             \A k \in 1..Len(createdProducts) :
                 resp.arg = createdProducts[k]._id => resp.body = createdProducts[k]

\* the first product is read back after a second product and an order were created
C2_Witness ==
    /\ impl = "app"
    /\ Len(createdProducts) = 2
    /\ createdProducts[1].name # createdProducts[2].name
    /\ Len(createdOrders) >= 1
    /\ resp.op = "get_product_by_id"
    /\ resp.arg = createdProducts[1]._id
    /\ resp.body = createdProducts[1]

\* C5: in every state, every id in the products list of every stored order is the id of
\* a stored product, in the in-memory store and in the files of the file-backed variant.
C5_ReferentialIntegrity ==
    /\ \A k \in 1..Len(orders) : \A i \in 1..Len(orders[k].products) :
         \E j \in 1..Len(products) : products[j]._id = orders[k].products[i]
    /\ \A k \in 1..Len(orders_file) : \A i \in 1..Len(orders_file[k].products) :
         \E j \in 1..Len(products_file) : products_file[j]._id = orders_file[k].products[i]

\* two orders are stored, one of them for two products, after an order was refused
C5_Witness ==
    /\ impl = "app"
    /\ Len(orders) = 2
    /\ \E k \in 1..Len(orders) : Len(orders[k].products) = 2
    /\ resp.op = "create_order" /\ resp.outcome = "ValueError"

\* some id of the list is not the id of a stored product
Unresolved(product_ids) ==
    \E i \in 1..Len(product_ids) :
        ~(\E j \in 1..Len(products) : products[j]._id = product_ids[i])

\* C3: a POST /orders whose products list is non-empty and names stored products only
\* (with a user id and a positive total) is answered 201 and its order is stored; a
\* stored order is answered 200 with the order by GET /orders/order/{id}.
C3_ValidOrderSucceeds ==
    /\ ( /\ resp.op = "POST /orders"
         /\ resp.arg.products # <<>>
         /\ ~Unresolved(resp.arg.products)
         /\ resp.arg.user_id # <<>>
         /\ resp.arg.total > 0 )
       => /\ resp.status = 201
          /\ \E k \in 1..Len(orders) :
               /\ orders[k].user_id = resp.arg.user_id
               /\ orders[k].products = resp.arg.products
    /\ ( /\ resp.op = "GET /orders/order/{id}"
         /\ \E k \in 1..Len(orders) : orders[k]._id = resp.arg )
       => /\ resp.status = 200
          /\ resp.body \in { orders[k] : k \in 1..Len(orders) }

C10_AbsentIdIs404 ==
    /\ resp.op = "GET /products/{id}"
       => (resp.status = 404 <=> ~(\E j \in 1..Len(products) : products[j]._id = resp.arg))
    /\ resp.op = "GET /orders/order/{id}"
       => (resp.status = 404 <=> ~(\E k \in 1..Len(orders) : orders[k]._id = resp.arg))

\* the first n elements of s, and s without its first n elements
Take(s, n) == [i \in 1..(IF n < Len(s) THEN n ELSE Len(s)) |-> s[i]]
Drop(s, n) == [i \in 1..(IF n < Len(s) THEN Len(s) - n ELSE 0) |-> s[i + n]]

\* name contains n, letters compared without regard to case
NameMatches(n, name) ==
    \E k \in 0..(Len(name) - Len(n)) :
        \A j \in 1..Len(n) : LowerChar(name[k + j]) = LowerChar(n[j])

\* the products a filters dict selects, in insertion order
Selected(prods, filters) ==
    SelectSeq(prods, LAMBDA p :
        /\ (filters # <<>> /\ "name" \in DOMAIN filters) => NameMatches(filters.name, p.name)
        /\ (filters # <<>> /\ "size" \in DOMAIN filters) => p.size = filters.size)

\* C6: for every offset o >= 0 and every integer limit l >= 0, find_products and
\* find_orders_by_user return full_list[o : o+l], full_list being the filtered
\* collection in insertion order (so nothing for l = 0).
C6_PaginationLaw ==
    /\ (resp.op = "find_products" /\ resp.arg.limit # NoneInt)
       => resp.body = Take(Drop(Selected(products, resp.arg.filters), resp.arg.offset),
                           resp.arg.limit)
    /\ (resp.op = "get_orders_by_user" /\ resp.arg.limit # NoneInt)
       => resp.body = Take(Drop(SelectSeq(orders, LAMBDA o : o.user_id = resp.arg.user_id),
                                resp.arg.offset),
                           resp.arg.limit)

\* C7: get_products with a size given, no name, offset 0 and no limit returns the stored
\* products whose size equals the given string, each once, in insertion order.
C7_SizeFilterExact ==
    ( /\ resp.op = "get_products"
      /\ resp.arg.name = NoneStr
      /\ resp.arg.size # NoneStr
      /\ resp.arg.offset = 0
      /\ resp.arg.limit = NoneInt )
    => resp.body = SelectSeq(products, LAMBDA p : p.size = resp.arg.size)

C9_OrdersOfUser ==
    /\ resp.op = "get_orders_by_user"
       => LET mine == SelectSeq(createdOrders, LAMBDA o : o.user_id = resp.arg.user_id)
          IN  /\ \A i \in 1..Len(resp.body) : resp.body[i].user_id = resp.arg.user_id
              /\ resp.arg.limit >= 1
                 => resp.body = Take(Drop(mine, resp.arg.offset), resp.arg.limit)
              /\ resp.arg.limit = NoneInt => resp.body = Drop(mine, resp.arg.offset)
              /\ ( /\ resp.arg.offset = 0
                   /\ (resp.arg.limit = NoneInt \/ resp.arg.limit >= Len(mine)) )
                 => resp.body = mine
    /\ resp.op = "api.get_user_orders"
       => LET mine == SelectSeq(createdOrders, LAMBDA o : o.user_id = resp.arg.user_id)
          IN  resp.body.orders = Take(Drop(mine, resp.arg.offset), resp.arg.limit)

\* orders of two users were created, and the orders of the second are listed in full
C9_Witness ==
    /\ resp.op = "get_orders_by_user"
    /\ Len(createdOrders) = 2
    /\ createdOrders[1].user_id # resp.arg.user_id
    /\ createdOrders[2].user_id = resp.arg.user_id
    /\ resp.arg.offset = 0 /\ resp.arg.limit = 2
    /\ resp.body = <<createdOrders[2]>>

\* C11: a create_order that fails the check of the product ids leaves the products, the
\* orders and both counters (in the file-backed variant: both files) as they were, and
\* a successful create_order gets the id numbered one more than the number of orders
\* created so far, however many calls failed before it.
C11_FailedOrderChangesNothing ==
    [][ /\ (resp'.op = "create_order" /\ resp'.outcome = "ValueError")
           => UNCHANGED <<products, orders, _product_counter, _order_counter>>
        /\ (resp'.op = "api.create_order" /\ resp'.outcome = "ValueError")
           => UNCHANGED <<products_file, orders_file>>
        /\ (resp'.op \in {"create_order", "api.create_order"} /\ resp'.outcome = "ok")
           => resp'.body._id = ExpectedId(OrderPrefix, Len(createdOrders) + 1)
      ]_vars

\* with one product and one order stored, a create_order has just been refused
C11_Witness ==
    /\ impl = "app"
    /\ Len(products) = 1
    /\ Len(orders) = 1
    /\ _order_counter = 2
    /\ resp.op = "create_order" /\ resp.outcome = "ValueError"
    /\ resp.arg.products = <<P1, P3>>

\* the records of a list of returned records whose id an earlier record of the list has
RepeatedId(recs) == \E i, j \in 1..Len(recs) : i < j /\ recs[i]._id = recs[j]._id

\* the collection that holds the products (the orders) of the program that runs
StoredProducts == IF impl = "app" THEN products ELSE products_file
StoredOrders == IF impl = "app" THEN orders ELSE orders_file

\* C12: when the statements of two create calls interleave, the create sequence is not
\* atomic.  Whatever the interleaving, the collection never holds more records than were
\* returned to the callers, and it holds fewer of them exactly when two of the returned
\* records carry the same id: a call that read the counter (loaded the list) before
\* another call's write gives its record an id that is taken, and its write replaces
\* that record (truncates the list).  The state with two returned products of one id and
\* one stored product is reached (C12_Witness).
C12_InterleavedCreatesCollide ==
    /\ Len(StoredProducts) <= Len(createdProducts)
    /\ Len(StoredOrders) <= Len(createdOrders)
    /\ RepeatedId(createdProducts) <=> Len(StoredProducts) < Len(createdProducts)
    /\ RepeatedId(createdOrders) <=> Len(StoredOrders) < Len(createdOrders)

\* both callers are back from create_product, with different data: the two records they
\* were given carry the same id, and the collection holds one record
C12_Witness ==
    /\ \A w \in Writers : at[w] = "idle"
    /\ Len(createdProducts) = 2
    /\ createdProducts[1]._id = createdProducts[2]._id
    /\ createdProducts[1].name # createdProducts[2].name
    /\ Len(StoredProducts) = 1
    /\ resp.op \in {"race.create_product", "race.api.create_product"}

\* C13: given the same create_product and create_order calls one after the other, the
\* services over the in-memory store and the file-backed ECommerceAPI hold records of the
\* same ids in the same order, accept and refuse the same calls, give the records they
\* create the same ids, and answer a product query (name, size) and an orders-by-user
\* query with offset >= 0 and limit >= 1 with records of the same ids in the same order.
C13_SameObservations ==
    impl = "both" =>
        /\ Ids(products) = Ids(products_file)
        /\ Ids(orders) = Ids(orders_file)
        /\ resp.op # "init" => resp.app = resp.run

\* with two products and an order stored in both programs, a product query by name has
\* just returned a product from both
C13_Witness ==
    /\ impl = "both"
    /\ Len(products) = 2 /\ Len(products_file) = 2
    /\ Len(orders) = 1 /\ Len(orders_file) = 1
    /\ resp.op = "pair.get_products"
    /\ resp.arg.name = <<"a", "B">>
    /\ resp.arg.limit = 1
    /\ resp.app.ids # <<>>
    /\ resp.run.ids # <<>>

====
